---- MODULE Spec2Model ----
(***************************************************************************)
(* Model of skypy/gravitational_wave/merger_rate.py:                       *)
(* abadie_tableIII_merger_rates(luminosity, population, optimism).         *)
(*                                                                         *)
(* Numbers.  Coefficients and rates are written in thousandths (10^-3 per  *)
(* year per L_10), so that the literal 0.6 is 600, 0.03 is 30, 0.006 is 6, *)
(* 0.2 is 200, 2 is 2000, 60 is 60000 and so on.  Luminosities are whole   *)
(* numbers of L_10.  A rate of 300.0 per year is therefore 300000.         *)
(*                                                                         *)
(* Python values.  A dict key is a tagged value, so that the str 'NS-NS'   *)
(* and the tuple ('NS-NS', 'low') are different keys, as they are for      *)
(* Python's hash/eq.                                                       *)
(***************************************************************************)
EXTENDS Integers, Sequences, FiniteSets, TLC

(* ---------------------------- bounds ----------------------------------- *)

\* longest luminosity array a caller passes
MaxLen == 2

\* number of threads calling the function in the concurrent specification
NumThreads == 2

(* ------------------------- input domains ------------------------------- *)

\* luminosity values a caller passes (negative, zero, positive)
LumValues == {-1, 0, 2}

RECURSIVE SeqsUpTo(_)
SeqsUpTo(n) ==
    IF n = 0 THEN {<<>>}
    ELSE LET S == SeqsUpTo(n - 1)
         IN  S \cup {Append(s, v) : s \in {q \in S : Len(q) = n - 1}, v \in LumValues}

LumSeqs == SeqsUpTo(MaxLen)

\* marker of an argument the call site leaves out
Omitted == "<omitted>"

\* selector strings tried by callers: the documented ones and one outside each set
Populations == {"NS-NS", "NS-BH", "BH-BH", "XX-YY"}
Optimisms == {"low", "realistic", "high", "max", "extreme"}

\* selector strings tried by the callers of the concurrent specification
ConcPopulations == {"NS-NS", "NS-BH"}
ConcOptimisms == {"low", "max"}

Threads == 1..NumThreads
MainThread == CHOOSE t \in Threads : \A u \in Threads : t <= u

(* ------------------------- Python values ------------------------------- *)

Str(s) == [type |-> "str", items |-> <<s>>]

\* the expression  population, optimism  inside a subscript builds a 2-tuple
Tuple(a, b) == [type |-> "tuple", items |-> <<a, b>>]

KeyError(key) == [type |-> "KeyError", arg |-> key]

\* KeyError is a subclass of LookupError
IsLookupError(e) == e.type \in {"KeyError", "IndexError", "LookupError"}

(* --------------------------- the function ------------------------------ *)

\* lines 74-85: the dict literal, a dict of str -> dict of str -> number
abadie_tableIII_dict ==
    (Str("NS-NS") :> (Str("low") :> 600 @@ Str("realistic") :> 60000 @@
                      Str("high") :> 600000 @@ Str("max") :> 2000000)) @@
    (Str("NS-BH") :> (Str("low") :> 30 @@ Str("realistic") :> 2000 @@
                      Str("high") :> 60000)) @@
    (Str("BH-BH") :> (Str("low") :> 6 @@ Str("realistic") :> 200 @@
                      Str("high") :> 20000))

\* the (population, optimism) pairs that have an entry in the table
TablePairs ==
    UNION {{<<p.items[1], o.items[1]>> : o \in DOMAIN abadie_tableIII_dict[p]} :
           p \in DOMAIN abadie_tableIII_dict}

\* the entry of the table for a pair of TablePairs
Coefficient(p, o) == abadie_tableIII_dict[Str(p)][Str(o)]

\* dict.get(key, 0): a missing key yields a default instead of raising
GetItemOrDefault(d, key) ==
    IF key \in DOMAIN d THEN [ok |-> TRUE, value |-> d[key]]
    ELSE [ok |-> TRUE, value |-> 0]

\* d[key]: the value stored under key, or KeyError(key) when key is no key of d
GetItem(d, key) ==
    IF key \in DOMAIN d THEN [ok |-> TRUE, value |-> d[key]]
    ELSE [ok |-> FALSE, value |-> KeyError(key)]

\* d.setdefault(key, 0): a missing key is inserted
DictAfterSetDefault(d, key) ==
    IF key \in DOMAIN d THEN d ELSE d @@ (key :> 0)

\* d[key] reads the dict and leaves it as it is
DictAfterGetItem(d, key) == d

\* line 87: scalar * ndarray, element by element, a new array
Multiply(c, L) == [i \in 1..Len(L) |-> c * L[i]]

\* line 88: merger_rate / units.year, a Quantity of the same values in 1 / yr
DivideByYear(a) == [value |-> a, unit |-> "1 / yr"]

\* lines 87-90 run on the dict d: the outcome of the call
Lines87to90(d, L, p, o) ==
    LET r == GetItem(d, Tuple(p, o))
    IN  IF r.ok
        THEN [kind |-> "return", value |-> DivideByYear(Multiply(r.value, L))]
        ELSE [kind |-> "raise", value |-> r.value]

\* lines 17-19: a parameter the call site omits takes its default
Bind(arg, default) == IF arg = Omitted THEN default ELSE arg

\* the whole function, run alone on its three call-site arguments
abadie_tableIII_merger_rates(L, p, o) ==
    Lines87to90(abadie_tableIII_dict, L, Bind(p, "NS-NS"), Bind(o, "low"))

(* ------------------------------ state ---------------------------------- *)

VARIABLES
    luminosity,   \* the caller's luminosity array, shared by all calls
    pc,           \* per thread: "idle", "build", "subscript", "done"
    call,         \* per thread: the call site's population and optimism (or Omitted)
    args,         \* per frame: the parameters population and optimism as bound
    table,        \* per frame: the local abadie_tableIII_dict, Unbound before line 74
    outcome,      \* per thread: what the call delivered to its caller
    prev          \* the last finished call and its outcome

vars == <<luminosity, pc, call, args, table, outcome, prev>>

None == [type |-> "NoneType", items |-> <<>>]

\* a local name with no value bound to it yet
Unbound == <<>>
NoCall == [population |-> Omitted, optimism |-> Omitted]

\* a frame shared by all calls (parameters kept in module-level state)
SharedFrame(t) == MainThread

\* every call runs in a frame of its own
Frame(t) == t

Init ==
    /\ luminosity \in LumSeqs
    /\ pc = [t \in Threads |-> "idle"]
    /\ call = [t \in Threads |-> NoCall]
    /\ args = [t \in Threads |-> NoCall]
    /\ table = [t \in Threads |-> Unbound]
    /\ outcome = [t \in Threads |-> None]
    /\ prev = None

\* lines 17-19: thread t calls the function on the caller's array with
\* selectors drawn from pops and opts; a call site that leaves out population
\* leaves out optimism too
Call(t, pops, opts) ==
    /\ pc[t] = "idle"
    /\ \E p \in pops, o \in opts :
          /\ p = Omitted => o = Omitted
          /\ call' = [call EXCEPT ![t] = [population |-> p, optimism |-> o]]
          /\ args' = [args EXCEPT ![Frame(t)] =
                         [population |-> Bind(p, "NS-NS"), optimism |-> Bind(o, "low")]]
    /\ pc' = [pc EXCEPT ![t] = "build"]
    /\ UNCHANGED <<luminosity, table, outcome, prev>>

\* lines 74-85: the dict literal is built and bound to the local name
BuildTable(t) ==
    /\ pc[t] = "build"
    /\ table' = [table EXCEPT ![Frame(t)] = abadie_tableIII_dict]
    /\ pc' = [pc EXCEPT ![t] = "subscript"]
    /\ UNCHANGED <<luminosity, call, args, outcome, prev>>

\* lines 87-90: subscript the dict with the tuple; on success multiply, attach
\* the unit and return, otherwise the KeyError propagates to the caller
Subscript(t) ==
    /\ pc[t] = "subscript"
    /\ LET f == Frame(t)
           a == args[f]
       IN  /\ outcome' = [outcome EXCEPT ![t] =
                             Lines87to90(table[f], luminosity, a.population, a.optimism)]
           /\ table' = [table EXCEPT ![f] =
                           DictAfterGetItem(table[f], Tuple(a.population, a.optimism))]
    /\ pc' = [pc EXCEPT ![t] = "done"]
    /\ UNCHANGED <<luminosity, call, args, prev>>

\* the caller takes the outcome; the frame is dropped
Finish(t) ==
    /\ pc[t] = "done"
    /\ prev' = [call |-> call[t], outcome |-> outcome[t]]
    /\ pc' = [pc EXCEPT ![t] = "idle"]
    /\ call' = [call EXCEPT ![t] = NoCall]
    /\ args' = [args EXCEPT ![Frame(t)] = NoCall]
    /\ table' = [table EXCEPT ![Frame(t)] = Unbound]
    /\ outcome' = [outcome EXCEPT ![t] = None]
    /\ UNCHANGED luminosity

\* one caller, calls one after the other, all selector strings
Next ==
    \/ Call(MainThread, Populations \cup {Omitted}, Optimisms \cup {Omitted})
    \/ BuildTable(MainThread)
    \/ Subscript(MainThread)
    \/ Finish(MainThread)

Spec == Init /\ [][Next]_vars

\* several threads calling without coordination
NextConc ==
    \E t \in Threads :
        \/ Call(t, ConcPopulations, ConcOptimisms)
        \/ BuildTable(t)
        \/ Subscript(t)
        \/ Finish(t)

SpecConc == Init /\ [][NextConc]_vars

(* ------------------------- helpers of the claims ----------------------- *)

\* thread t's call has ended and its caller holds the outcome
Done(t) == pc[t] = "done"

\* the selectors thread t's call runs with, defaults applied
PopulationOf(t) == Bind(call[t].population, "NS-NS")
OptimismOf(t) == Bind(call[t].optimism, "low")
PairOf(t) == <<PopulationOf(t), OptimismOf(t)>>

\* the ten pairs and values of Table III as the documentation lists them
DocumentedCoefficient ==
    (<<"NS-NS", "low">> :> 600) @@ (<<"NS-NS", "realistic">> :> 60000) @@
    (<<"NS-NS", "high">> :> 600000) @@ (<<"NS-NS", "max">> :> 2000000) @@
    (<<"NS-BH", "low">> :> 30) @@ (<<"NS-BH", "realistic">> :> 2000) @@
    (<<"NS-BH", "high">> :> 60000) @@
    (<<"BH-BH", "low">> :> 6) @@ (<<"BH-BH", "realistic">> :> 200) @@
    (<<"BH-BH", "high">> :> 20000)

\* scalars k of the scaling property
Scalars == {-1, 0, 3}

\* the optimism levels from the most pessimistic to the most optimistic
OptimismRank == ("low" :> 1) @@ ("realistic" :> 2) @@ ("high" :> 3) @@ ("max" :> 4)

\* the rate values of an outcome that is a return
Rates(r) == r.value.value

(* ------------------------------ claims --------------------------------- *)

\* C1: for every pair of the table and every luminosity array L the call
\* returns R with Len(R) = Len(L) and R[i] = coefficient * L[i], in L's order.
C1_RateIsCoefficientTimesLuminosity ==
    \A t \in Threads :
        Done(t) /\ PairOf(t) \in TablePairs =>
            /\ outcome[t].kind = "return"
            /\ Len(Rates(outcome[t])) = Len(luminosity)
            /\ \A i \in 1..Len(luminosity) :
                  Rates(outcome[t])[i] =
                      Coefficient(PopulationOf(t), OptimismOf(t)) * luminosity[i]

\* C2: the coefficient the call uses for a pair is the documented value of
\* Table III, and the ten documented pairs are the only pairs a call accepts.
C2_CoefficientIsTableValue ==
    \A t \in Threads :
        Done(t) =>
            IF PairOf(t) \in DOMAIN DocumentedCoefficient
            THEN /\ outcome[t].kind = "return"
                 /\ Rates(outcome[t]) =
                        [i \in 1..Len(luminosity) |->
                            DocumentedCoefficient[PairOf(t)] * luminosity[i]]
            ELSE outcome[t].kind = "raise"

\* C3: a call whose (population, optimism) pair has no entry in the table
\* ends in a lookup error and returns no rate, whatever the luminosity array.
C3_InvalidSelectorRaisesLookupError ==
    \A t \in Threads :
        Done(t) /\ PairOf(t) \notin TablePairs =>
            /\ outcome[t].kind = "raise"
            /\ IsLookupError(outcome[t].value)

C3_Witness ==
    \E t \in Threads :
        /\ Done(t)
        /\ PairOf(t) = <<"NS-BH", "max">>
        /\ luminosity = <<>>
        /\ outcome[t] = [kind |-> "raise", value |-> KeyError(Tuple("NS-BH", "max"))]

\* C4: an invalid selector is the only failure: a call with a pair of the
\* table never ends in an error, whatever the luminosity array.
C4_ValidSelectorNeverRaises ==
    \A t \in Threads :
        Done(t) /\ PairOf(t) \in TablePairs => outcome[t].kind # "raise"

\* C5: with a pair of the table, an empty luminosity array gives an empty
\* rate array and no error.
C5_EmptyInEmptyOut ==
    \A t \in Threads :
        Done(t) /\ PairOf(t) \in TablePairs /\ Len(luminosity) = 0 =>
            /\ outcome[t].kind = "return"
            /\ Len(Rates(outcome[t])) = 0

\* C6: scaling: with a pair of the table, the rate of k * L is k times the
\* rate of L, element by element, for every scalar k.
C6_Scaling ==
    \A t \in Threads :
        Done(t) /\ PairOf(t) \in TablePairs =>
            \A k \in Scalars :
                LET scaled == abadie_tableIII_merger_rates(
                                  Multiply(k, luminosity), PopulationOf(t), OptimismOf(t))
                IN  /\ outcome[t].kind = "return"
                    /\ scaled.kind = "return"
                    /\ Rates(scaled) = Multiply(k, Rates(outcome[t]))

\* C7: a call that omits optimism gives what the call with optimism 'low'
\* gives, and a call that omits both selectors returns 0.6 * L[i].
C7_Defaults ==
    \A t \in Threads :
        Done(t) /\ call[t].optimism = Omitted =>
            /\ outcome[t] =
                   abadie_tableIII_merger_rates(luminosity, call[t].population, "low")
            /\ call[t].population = Omitted =>
                   /\ outcome[t].kind = "return"
                   /\ Rates(outcome[t]) = [i \in 1..Len(luminosity) |-> 600 * luminosity[i]]

\* C8: the function is stateless: no step of any call changes the caller's
\* luminosity array, the table of a running call keeps the contents of the
\* literal, and a call with the arguments of the call before it has that
\* call's outcome.
C8_Stateless ==
    /\ [][/\ luminosity' = luminosity
          /\ \A t \in Threads :
                pc'[t] \in {"subscript", "done"} =>
                    table'[Frame(t)] = abadie_tableIII_dict]_vars
    /\ [](\A t \in Threads :
            Done(t) /\ prev # None /\ prev.call = call[t] =>
                outcome[t] = prev.outcome)

C8_Witness ==
    \E t \in Threads :
        /\ Done(t)
        /\ prev # None
        /\ prev.call = call[t]
        /\ prev.outcome.kind = "raise"
        /\ Len(luminosity) > 0

\* C9: calls made concurrently from several threads do not interfere: under
\* every interleaving each call ends with the outcome it has when run alone
\* on the same arguments.
C9_NoInterference ==
    \A t \in Threads :
        Done(t) =>
            outcome[t] = abadie_tableIII_merger_rates(
                             luminosity, call[t].population, call[t].optimism)

C9_Witness ==
    \E t, u \in Threads :
        /\ t # u
        /\ Done(t)
        /\ pc[u] \in {"build", "subscript", "done"}
        /\ call[u] # call[t]

\* C10: for a fixed population and non-negative luminosities the rate at each
\* index does not decrease from one optimism level to a more optimistic one,
\* and increases where the luminosity is positive.
C10_RateIncreasesWithOptimism ==
    \A t \in Threads :
        (/\ Done(t)
         /\ PairOf(t) \in TablePairs
         /\ \A i \in 1..Len(luminosity) : luminosity[i] >= 0) =>
            \A o \in {x \in DOMAIN OptimismRank :
                        /\ <<PopulationOf(t), x>> \in TablePairs
                        /\ OptimismRank[x] < OptimismRank[OptimismOf(t)]} :
                LET lower == abadie_tableIII_merger_rates(luminosity, PopulationOf(t), o)
                IN  /\ Coefficient(PopulationOf(t), o) <
                           Coefficient(PopulationOf(t), OptimismOf(t))
                    /\ outcome[t].kind = "return"
                    /\ lower.kind = "return"
                    /\ \A i \in 1..Len(luminosity) :
                          /\ Rates(lower)[i] <= Rates(outcome[t])[i]
                          /\ luminosity[i] > 0 => Rates(lower)[i] < Rates(outcome[t])[i]

====
